---- MODULE Spec2Model ----
(***************************************************************************)
(* Model of the UART driver of emb1.c: init_uart, write_uart, read_uart,   *)
(* the UART_HANDLE they share and the memory-mapped registers CNR, BRR,    *)
(* STA, TDR and RDR, together with the device that sets the ready bits.    *)
(*                                                                         *)
(* 32-bit quantities (register values, addresses) are pairs <<hi, lo>> of  *)
(* 16-bit halves, so that 0xFC000000 and 0xFFFFFFFF keep their width.      *)
(***************************************************************************)
EXTENDS Integers, Sequences, FiniteSets, TLC

\* ------------------------------------------------------------------ bounds
\* The poll bound, scaled down from the source's 1000000 (emb1.c:64): the
\* loop is the same loop, it only gives up sooner.
TIMEOUT_LIMIT == 2

\* ------------------------------------------------------- 32-bit arithmetic
HALF == 65536

\* bit n (0..15) of the low half of a 32-bit value
BitSet(v, n) == (v[2] \div (2 ^ n)) % 2 = 1

\* v with bit n (0..15) of the low half cleared / set
ClearBit(v, n) == IF BitSet(v, n) THEN <<v[1], v[2] - 2 ^ n>> ELSE v
SetBit(v, n) == IF BitSet(v, n) THEN v ELSE <<v[1], v[2] + 2 ^ n>>

\* bits lo..hi (inclusive, within 0..15) of a 32-bit value, as a number
Field(v, lo, hi) == (v[2] \div (2 ^ lo)) % (2 ^ (hi - lo + 1))

\* pointer arithmetic UART_BASE + offset, with carry into the high half
AddrAdd(a, off) ==
    LET s == a[2] + off
    IN  <<(a[1] + (s \div HALF)) % HALF, s % HALF>>

\* ------------------------------------------------------- register layout
UART_BASE == <<64512, 0>>      \* 0xFC000000
CNR_OFFSET == 0
BRR_OFFSET == 4
STA_OFFSET == 8
TDR_OFFSET_wrong == 4 + 4
TDR_OFFSET == 12
RDR_OFFSET == 16

CNR_ADDR == AddrAdd(UART_BASE, CNR_OFFSET)
BRR_ADDR == AddrAdd(UART_BASE, BRR_OFFSET)
STA_ADDR == AddrAdd(UART_BASE, STA_OFFSET)
TDR_ADDR == AddrAdd(UART_BASE, TDR_OFFSET)
RDR_ADDR == AddrAdd(UART_BASE, RDR_OFFSET)

RegAddrs == {CNR_ADDR, BRR_ADDR, STA_ADDR, TDR_ADDR, RDR_ADDR}

\* STA bit numbers
RX_READY_BIT == 0
TX_READY_BIT == 1

\* ------------------------------------------------------ values init writes
CNR_INIT_wrong == <<0, 1>>
CNR_INIT == <<0, 3>>           \* 0x3

BRR_INIT_wrong == <<0, 2134>>  \* 0x0856
BRR_INIT == <<0, 2150>>        \* 0x0866

\* --------------------------------------------------------- C conversions
\* uint32_t <- char  (the assignment *(h->tdr) = c).  c is the byte the
\* caller passes, 0..255; where plain char is signed, the bytes 128..255
\* are the values -128..-1 and the conversion to uint32_t sign-extends.
CharToU32_zeroext(c, isSigned) == <<0, c>>
CharToU32(c, isSigned) ==
    IF isSigned /\ c >= 128 THEN <<HALF - 1, (HALF - 256) + c>> ELSE <<0, c>>

\* int <- uint32_t  (return rdrVal): two's complement, 32-bit int
U32ToInt_lowhalf(v) == v[2]
U32ToInt(v) ==
    IF v[1] >= HALF \div 2 THEN (v[1] - HALF) * HALF + v[2]
    ELSE v[1] * HALF + v[2]

\* ------------------------------------------------------------ the guards
IsNull_never(p) == FALSE
IsNull(p) == p = "NULL"

NotInitialized_never(hh) == FALSE
NotInitialized(hh) == hh.isInitialized = FALSE

TxReady_bit0(v) == BitSet(v, RX_READY_BIT)
TxReady(v) == BitSet(v, TX_READY_BIT)

RxReady_bit1(v) == BitSet(v, TX_READY_BIT)
RxReady(v) == BitSet(v, RX_READY_BIT)

TimedOut_never(tm) == FALSE
TimedOut(tm) == tm > TIMEOUT_LIMIT

\* ------------------------------------------------------------- the inputs
Threads == {1, 2}
HandleArgs == {"NULL", "H"}
Bytes == {0, 65, 128, 255}
RdrVals == {<<0, 66>>, <<0, 255>>, <<HALF - 1, HALF - 1>>}
Garbage == {<<0, 0>>, <<57005, 48879>>}
ResetVals == {<<0, 0>>, <<HALF - 1, HALF - 1>>}

VOID == [has |-> FALSE, val |-> 0]
IntRet(n) == [has |-> TRUE, val |-> n]
NoOp == [name |-> "none", h |-> "NULL", arg |-> 0, mock |-> FALSE]
NoPrev == [name |-> "none", ret |-> VOID, kind |-> "none"]

VARIABLES
    h,          \* the UART_HANDLE
    mem,        \* the device registers, by address
    charSigned, \* whether plain char is signed in this build
    pc,         \* per caller: where it is in its current call
    op,         \* per caller: the call in progress or last returned
    staVal,     \* per caller: the local staVal
    timer,      \* per caller: the local timer
    ret,        \* per caller: the value returned
    diag,       \* per caller: the diagnostic of the branch the call left by
    trace,      \* per caller: the register accesses of the call, in order
    seen,       \* per caller: the ready bit was set at one of the call's status checks
    prev        \* per caller: name, return value and exit of the call before

vars == <<h, mem, charSigned, pc, op, staVal, timer, ret, diag, trace, seen, prev>>

\* ------------------------------------------------------- register access
\* A store to a register.  Writing TDR clears TX ready (emb1.c:40).
MemWrite(m, a, v) ==
    IF a \notin DOMAIN m THEN m
    ELSE IF a = TDR_ADDR
         THEN [m EXCEPT ![a] = v, ![STA_ADDR] = ClearBit(m[STA_ADDR], TX_READY_BIT)]
         ELSE [m EXCEPT ![a] = v]

\* A load from a register: the value, and the registers after it.
\* Reading RDR clears RX ready (emb1.c:39).
MemRead(m, a) == IF a \in DOMAIN m THEN m[a] ELSE <<0, 0>>
MemAfterRead(m, a) ==
    IF a = RDR_ADDR
    THEN [m EXCEPT ![STA_ADDR] = ClearBit(m[STA_ADDR], RX_READY_BIT)]
    ELSE m

\* One register access of a call: kind, address, value, and whether the
\* ready bit that guards a data register was up when it was accessed.
Access(k, a, v) ==
    [k |-> k, a |-> a, v |-> v,
     rdy |-> IF k = "W" /\ a = TDR_ADDR THEN BitSet(mem[STA_ADDR], TX_READY_BIT)
             ELSE IF k = "R" /\ a = RDR_ADDR THEN BitSet(mem[STA_ADDR], RX_READY_BIT)
             ELSE TRUE]

\* The exit of a call, from the branch it left by
Kind(t) == IF diag[t] \in {"none", "Writing"} THEN "Ok" ELSE diag[t]

\* ------------------------------------------------------------------ Init
Init ==
    /\ \E g \in Garbage :
         h = [isInitialized |-> FALSE, baseAddress |-> g,
              cnr |-> g, brr |-> g, sta |-> g, tdr |-> g, rdr |-> g]
    /\ \E r \in ResetVals, s \in 0..3, d \in RdrVals :
         mem = [a \in RegAddrs |->
                  IF a = STA_ADDR THEN <<0, s>>
                  ELSE IF a = RDR_ADDR THEN d
                  ELSE IF a = TDR_ADDR THEN <<0, 0>>
                  ELSE r]
    /\ charSigned \in BOOLEAN
    /\ pc = [t \in Threads |-> "idle"]
    /\ op = [t \in Threads |-> NoOp]
    /\ staVal = [t \in Threads |-> <<0, 0>>]
    /\ timer = [t \in Threads |-> 0]
    /\ ret = [t \in Threads |-> VOID]
    /\ diag = [t \in Threads |-> "none"]
    /\ trace = [t \in Threads |-> <<>>]
    /\ seen = [t \in Threads |-> FALSE]
    /\ prev = [t \in Threads |-> NoPrev]

\* --------------------------------------------------------------- callers
\* A caller starts a call: the locals of the new call are fresh.
Enter(t, name, hp, arg, mock) ==
    /\ pc[t] = "idle"
    /\ pc' = [pc EXCEPT ![t] = name]
    /\ op' = [op EXCEPT ![t] = [name |-> name, h |-> hp, arg |-> arg, mock |-> mock]]
    /\ prev' = [prev EXCEPT ![t] = [name |-> op[t].name, ret |-> ret[t], kind |-> Kind(t)]]
    /\ staVal' = [staVal EXCEPT ![t] = <<0, 0>>]
    /\ timer' = [timer EXCEPT ![t] = 0]
    /\ ret' = [ret EXCEPT ![t] = VOID]
    /\ diag' = [diag EXCEPT ![t] = "none"]
    /\ trace' = [trace EXCEPT ![t] = <<>>]
    /\ seen' = [seen EXCEPT ![t] = FALSE]
    /\ UNCHANGED <<h, mem, charSigned>>

CallInit(t) == \E hp \in HandleArgs, useMock \in BOOLEAN : Enter(t, "init", hp, 0, useMock)
CallWrite(t) == \E hp \in HandleArgs, c \in Bytes : Enter(t, "write", hp, c, FALSE)
CallRead(t) == \E hp \in HandleArgs : Enter(t, "read", hp, 0, FALSE)

\* A call returns: value r, left by the branch that prints d.
Return(t, r, d) ==
    /\ pc' = [pc EXCEPT ![t] = "idle"]
    /\ ret' = [ret EXCEPT ![t] = r]
    /\ diag' = [diag EXCEPT ![t] = d]

Goto(t, l) == pc' = [pc EXCEPT ![t] = l]

\* ------------------------------------------------------------- init_uart
InitNullCheck(t) ==
    /\ pc[t] = "init"
    /\ IF IsNull(op[t].h)
       THEN Return(t, VOID, "NullHandle")
       ELSE Goto(t, "init_ptrs") /\ UNCHANGED <<ret, diag>>
    /\ UNCHANGED <<h, mem, charSigned, op, staVal, timer, trace, seen, prev>>

\* variants of InitPointers: the handle is cleared first / flagged first
InitPointers_reset(t) ==
    /\ pc[t] = "init_ptrs"
    /\ h' = [isInitialized |-> FALSE, baseAddress |-> UART_BASE,
             cnr |-> CNR_ADDR, brr |-> BRR_ADDR, sta |-> STA_ADDR,
             tdr |-> TDR_ADDR, rdr |-> RDR_ADDR]
    /\ Goto(t, "init_cnr")
    /\ UNCHANGED <<mem, charSigned, op, staVal, timer, ret, diag, trace, seen, prev>>

InitPointers_flagfirst(t) ==
    /\ pc[t] = "init_ptrs"
    /\ h' = [isInitialized |-> TRUE, baseAddress |-> UART_BASE,
             cnr |-> CNR_ADDR, brr |-> BRR_ADDR, sta |-> STA_ADDR,
             tdr |-> TDR_ADDR, rdr |-> RDR_ADDR]
    /\ Goto(t, "init_cnr")
    /\ UNCHANGED <<mem, charSigned, op, staVal, timer, ret, diag, trace, seen, prev>>

InitPointers(t) ==
    /\ pc[t] = "init_ptrs"
    /\ h' = [h EXCEPT !.baseAddress = UART_BASE,
                      !.cnr = AddrAdd(UART_BASE, CNR_OFFSET),
                      !.brr = AddrAdd(UART_BASE, BRR_OFFSET),
                      !.sta = AddrAdd(UART_BASE, STA_OFFSET),
                      !.tdr = AddrAdd(UART_BASE, TDR_OFFSET),
                      !.rdr = AddrAdd(UART_BASE, RDR_OFFSET)]
    /\ Goto(t, "init_cnr")
    /\ UNCHANGED <<mem, charSigned, op, staVal, timer, ret, diag, trace, seen, prev>>

InitWriteCNR(t) ==
    /\ pc[t] = "init_cnr"
    /\ mem' = MemWrite(mem, h.cnr, CNR_INIT)
    /\ trace' = [trace EXCEPT ![t] = Append(@, Access("W", h.cnr, CNR_INIT))]
    /\ Goto(t, "init_brr")
    /\ UNCHANGED <<h, charSigned, op, staVal, timer, ret, diag, seen, prev>>

\* variant of InitWriteBRR: *(h->brr) += 0x0866
InitWriteBRR_add(t) ==
    /\ pc[t] = "init_brr"
    /\ LET v == AddrAdd(MemRead(mem, h.brr), BRR_INIT[2])
       IN  /\ mem' = MemWrite(mem, h.brr, v)
           /\ trace' = [trace EXCEPT ![t] = Append(@, Access("W", h.brr, v))]
    /\ Goto(t, "init_flag")
    /\ UNCHANGED <<h, charSigned, op, staVal, timer, ret, diag, seen, prev>>

InitWriteBRR(t) ==
    /\ pc[t] = "init_brr"
    /\ mem' = MemWrite(mem, h.brr, BRR_INIT)
    /\ trace' = [trace EXCEPT ![t] = Append(@, Access("W", h.brr, BRR_INIT))]
    /\ Goto(t, "init_flag")
    /\ UNCHANGED <<h, charSigned, op, staVal, timer, ret, diag, seen, prev>>

InitSetFlag(t) ==
    /\ pc[t] = "init_flag"
    /\ h' = [h EXCEPT !.isInitialized = TRUE]
    /\ Return(t, VOID, "none")
    /\ UNCHANGED <<mem, charSigned, op, staVal, timer, trace, seen, prev>>

\* ------------------------------------------------------------ write_uart
WriteNullCheck(t) ==
    /\ pc[t] = "write"
    /\ IF IsNull(op[t].h)
       THEN Return(t, VOID, "NullHandle")
       ELSE Goto(t, "write_chk") /\ UNCHANGED <<ret, diag>>
    /\ UNCHANGED <<h, mem, charSigned, op, staVal, timer, trace, seen, prev>>

WriteInitCheck(t) ==
    /\ pc[t] = "write_chk"
    /\ IF NotInitialized(h)
       THEN Return(t, VOID, "NotInitialized")
       ELSE Goto(t, "write_sta") /\ UNCHANGED <<ret, diag>>
    /\ UNCHANGED <<h, mem, charSigned, op, staVal, timer, trace, seen, prev>>

\* variant of WriteReadSTA: the call waits while another caller is
\* between its status read and its write of TDR
WriteReadSTA_locked(t) ==
    /\ pc[t] = "write_sta"
    /\ \A u \in Threads \ {t} : pc[u] \notin {"write_loop", "write_tdr"}
    /\ LET v == MemRead(mem, h.sta)
       IN  /\ staVal' = [staVal EXCEPT ![t] = v]
           /\ trace' = [trace EXCEPT ![t] = Append(@, Access("R", h.sta, v))]
           /\ seen' = [seen EXCEPT ![t] = BitSet(v, TX_READY_BIT)]
    /\ mem' = MemAfterRead(mem, h.sta)
    /\ timer' = [timer EXCEPT ![t] = 0]
    /\ Goto(t, "write_loop")
    /\ UNCHANGED <<h, charSigned, op, ret, diag, prev>>

\* uint32_t staVal = *(h->sta); int timer = 0;
WriteReadSTA(t) ==
    /\ pc[t] = "write_sta"
    /\ LET v == MemRead(mem, h.sta)
       IN  /\ staVal' = [staVal EXCEPT ![t] = v]
           /\ trace' = [trace EXCEPT ![t] = Append(@, Access("R", h.sta, v))]
           /\ seen' = [seen EXCEPT ![t] = BitSet(v, TX_READY_BIT)]
    /\ mem' = MemAfterRead(mem, h.sta)
    /\ timer' = [timer EXCEPT ![t] = 0]
    /\ Goto(t, "write_loop")
    /\ UNCHANGED <<h, charSigned, op, ret, diag, prev>>

\* variant of WriteLoop: a timeout marks the handle uninitialized
WriteLoop_deinit(t) ==
    /\ pc[t] = "write_loop"
    /\ IF ~TxReady(staVal[t])
       THEN /\ timer' = [timer EXCEPT ![t] = @ + 1]
            /\ seen' = [seen EXCEPT ![t] = @ \/ BitSet(MemRead(mem, h.sta), TX_READY_BIT)]
            /\ IF TimedOut(timer[t] + 1)
               THEN Return(t, VOID, "Timeout") /\ h' = [h EXCEPT !.isInitialized = FALSE]
               ELSE UNCHANGED <<pc, ret, diag, h>>
       ELSE /\ Goto(t, "write_tdr")
            /\ UNCHANGED <<timer, seen, ret, diag, h>>
    /\ UNCHANGED <<mem, charSigned, op, staVal, trace, prev>>

\* One evaluation of while(!(staVal & 0x02)) and, when it holds, one pass of
\* the body.  staVal is the local: the register is not read again.
WriteLoop(t) ==
    /\ pc[t] = "write_loop"
    /\ IF ~TxReady(staVal[t])
       THEN /\ timer' = [timer EXCEPT ![t] = @ + 1]
            /\ seen' = [seen EXCEPT ![t] = @ \/ BitSet(MemRead(mem, h.sta), TX_READY_BIT)]
            /\ IF TimedOut(timer[t] + 1)
               THEN Return(t, VOID, "Timeout")
               ELSE UNCHANGED <<pc, ret, diag>>
       ELSE /\ Goto(t, "write_tdr")
            /\ UNCHANGED <<timer, seen, ret, diag>>
    /\ UNCHANGED <<h, mem, charSigned, op, staVal, trace, prev>>

\* *(h->tdr) = c;
WriteTDR(t) ==
    /\ pc[t] = "write_tdr"
    /\ LET v == CharToU32(op[t].arg, charSigned)
       IN  /\ mem' = MemWrite(mem, h.tdr, v)
           /\ trace' = [trace EXCEPT ![t] = Append(@, Access("W", h.tdr, v))]
    /\ Return(t, VOID, "Writing")
    /\ UNCHANGED <<h, charSigned, op, staVal, timer, seen, prev>>

\* ------------------------------------------------------------- read_uart
ReadNullCheck(t) ==
    /\ pc[t] = "read"
    /\ IF IsNull(op[t].h)
       THEN Return(t, IntRet(-1), "NullHandle")
       ELSE Goto(t, "read_chk") /\ UNCHANGED <<ret, diag>>
    /\ UNCHANGED <<h, mem, charSigned, op, staVal, timer, trace, seen, prev>>

ReadInitCheck(t) ==
    /\ pc[t] = "read_chk"
    /\ IF NotInitialized(h)
       THEN Return(t, IntRet(-1), "NotInitialized")
       ELSE Goto(t, "read_sta") /\ UNCHANGED <<ret, diag>>
    /\ UNCHANGED <<h, mem, charSigned, op, staVal, timer, trace, seen, prev>>

\* int timer = 0; uint32_t staVal = *(h->sta);
ReadReadSTA(t) ==
    /\ pc[t] = "read_sta"
    /\ LET v == MemRead(mem, h.sta)
       IN  /\ staVal' = [staVal EXCEPT ![t] = v]
           /\ trace' = [trace EXCEPT ![t] = Append(@, Access("R", h.sta, v))]
           /\ seen' = [seen EXCEPT ![t] = BitSet(v, RX_READY_BIT)]
    /\ mem' = MemAfterRead(mem, h.sta)
    /\ timer' = [timer EXCEPT ![t] = 0]
    /\ Goto(t, "read_loop")
    /\ UNCHANGED <<h, charSigned, op, ret, diag, prev>>

\* variant of ReadLoop: a timeout reads RDR once to flush it
ReadLoop_flush(t) ==
    /\ pc[t] = "read_loop"
    /\ IF ~RxReady(staVal[t])
       THEN /\ timer' = [timer EXCEPT ![t] = @ + 1]
            /\ seen' = [seen EXCEPT ![t] = @ \/ BitSet(MemRead(mem, h.sta), RX_READY_BIT)]
            /\ IF TimedOut(timer[t] + 1)
               THEN /\ Return(t, IntRet(-1), "Timeout")
                    /\ mem' = MemAfterRead(mem, h.rdr)
                    /\ trace' = [trace EXCEPT ![t] =
                                   Append(@, Access("R", h.rdr, MemRead(mem, h.rdr)))]
               ELSE UNCHANGED <<pc, ret, diag, mem, trace>>
       ELSE /\ Goto(t, "read_rdr")
            /\ UNCHANGED <<timer, seen, ret, diag, mem, trace>>
    /\ UNCHANGED <<h, charSigned, op, staVal, prev>>

\* One evaluation of while (!(staVal & 0x01)) and, when it holds, one pass
\* of the body.
ReadLoop(t) ==
    /\ pc[t] = "read_loop"
    /\ IF ~RxReady(staVal[t])
       THEN /\ timer' = [timer EXCEPT ![t] = @ + 1]
            /\ seen' = [seen EXCEPT ![t] = @ \/ BitSet(MemRead(mem, h.sta), RX_READY_BIT)]
            /\ IF TimedOut(timer[t] + 1)
               THEN Return(t, IntRet(-1), "Timeout")
               ELSE UNCHANGED <<pc, ret, diag>>
       ELSE /\ Goto(t, "read_rdr")
            /\ UNCHANGED <<timer, seen, ret, diag>>
    /\ UNCHANGED <<h, mem, charSigned, op, staVal, trace, prev>>

\* uint32_t rdrVal = *(h->rdr); return rdrVal;
ReadRDR(t) ==
    /\ pc[t] = "read_rdr"
    /\ LET v == MemRead(mem, h.rdr)
       IN  /\ trace' = [trace EXCEPT ![t] = Append(@, Access("R", h.rdr, v))]
           /\ Return(t, IntRet(U32ToInt(v)), "none")
    /\ mem' = MemAfterRead(mem, h.rdr)
    /\ UNCHANGED <<h, charSigned, op, staVal, timer, seen, prev>>

\* ------------------------------------------------------------ the device
\* The transmitter can take the next byte: STA bit 1 goes up.
DevTxReady ==
    /\ ~BitSet(mem[STA_ADDR], TX_READY_BIT)
    /\ mem' = [mem EXCEPT ![STA_ADDR] = SetBit(@, TX_READY_BIT)]
    /\ UNCHANGED <<h, charSigned, pc, op, staVal, timer, ret, diag, trace, seen, prev>>

\* A byte arrives: RDR holds it and STA bit 0 goes up.
DevRxByte ==
    /\ ~BitSet(mem[STA_ADDR], RX_READY_BIT)
    /\ \E v \in RdrVals :
         mem' = [mem EXCEPT ![RDR_ADDR] = v, ![STA_ADDR] = SetBit(@, RX_READY_BIT)]
    /\ UNCHANGED <<h, charSigned, pc, op, staVal, timer, ret, diag, trace, seen, prev>>

\* --------------------------------------------------------- specification
\* main: one caller, thread 1.
Caller == 1

Next ==
    \/ CallInit(Caller)
    \/ CallWrite(Caller)
    \/ CallRead(Caller)
    \/ InitNullCheck(Caller)
    \/ InitPointers(Caller)
    \/ InitWriteCNR(Caller)
    \/ InitWriteBRR(Caller)
    \/ InitSetFlag(Caller)
    \/ WriteNullCheck(Caller)
    \/ WriteInitCheck(Caller)
    \/ WriteReadSTA(Caller)
    \/ WriteLoop(Caller)
    \/ WriteTDR(Caller)
    \/ ReadNullCheck(Caller)
    \/ ReadInitCheck(Caller)
    \/ ReadReadSTA(Caller)
    \/ ReadLoop(Caller)
    \/ ReadRDR(Caller)
    \/ DevTxReady
    \/ DevRxByte

Spec == Init /\ [][Next]_vars

\* The steps of a call in progress of caller t (everything but the call itself)
CallSteps(t) ==
    \/ InitNullCheck(t) \/ InitPointers(t) \/ InitWriteCNR(t)
    \/ InitWriteBRR(t) \/ InitSetFlag(t)
    \/ WriteNullCheck(t) \/ WriteInitCheck(t) \/ WriteReadSTA(t)
    \/ WriteLoop(t) \/ WriteTDR(t)
    \/ ReadNullCheck(t) \/ ReadInitCheck(t) \/ ReadReadSTA(t)
    \/ ReadLoop(t) \/ ReadRDR(t)

\* ================================================================ claims
\* int -> uint32_t: the 32-bit pattern of a returned int
IntToU32(n) == <<((n \div HALF) + HALF) % HALF, n % HALF>>

RegWrites(t, a) == {i \in 1..Len(trace[t]) : trace[t][i].k = "W" /\ trace[t][i].a = a}
RegReads(t, a) == {i \in 1..Len(trace[t]) : trace[t][i].k = "R" /\ trace[t][i].a = a}

\* C1: a write_uart or read_uart call on a handle whose isInitialized is
\* false leaves by the not-initialized branch (read_uart returning -1,
\* write_uart returning nothing) and touches no register: at no point of
\* such a call has a register been read or written.
C1_UninitializedRefused ==
    \A t \in Threads :
        (op[t].name \in {"write", "read"} /\ op[t].h = "H" /\ ~h.isInitialized)
        => /\ trace[t] = <<>>
           /\ pc[t] \in {"write", "write_chk", "read", "read_chk", "idle"}
           /\ pc[t] = "idle" =>
                /\ diag[t] = "NotInitialized"
                /\ ret[t] = IF op[t].name = "read" THEN IntRet(-1) ELSE VOID

\* a read and then a write, both refused on the uninitialized handle
C1_Witness ==
    /\ pc[1] = "idle" /\ ~h.isInitialized
    /\ op[1].name = "write" /\ op[1].h = "H" /\ diag[1] = "NotInitialized"
    /\ prev[1].name = "read" /\ prev[1].kind = "NotInitialized"

\* C2: write_uart (read_uart) polls the status register: if TX ready (RX
\* ready) was set in the status register at any status check of the call,
\* the call does not end in a timeout.
C2_PollsUntilReady ==
    \A t \in Threads :
        (pc[t] = "idle" /\ op[t].name \in {"write", "read"} /\ diag[t] = "Timeout")
        => ~seen[t]

\* C3: a write_uart call on an initialized handle whose status register
\* shows TX ready at none of its status checks makes at most
\* TIMEOUT_LIMIT + 1 passes of the loop, ends in Timeout and does not
\* write the transmit-data register.
C3_TimeoutWithoutWrite ==
    \A t \in Threads :
        (op[t].name = "write" /\ Len(trace[t]) >= 1 /\ ~seen[t])
        => /\ pc[t] \in {"write_loop", "idle"}
           /\ timer[t] <= TIMEOUT_LIMIT + 1
           /\ RegWrites(t, TDR_ADDR) = {}
           /\ Len(trace[t]) = 1
           /\ pc[t] = "idle" =>
                (diag[t] = "Timeout" /\ timer[t] = TIMEOUT_LIMIT + 1 /\ ret[t] = VOID)

C3_Witness ==
    /\ pc[1] = "idle" /\ op[1].name = "write" /\ h.isInitialized
    /\ diag[1] = "Timeout" /\ ~seen[1] /\ RegWrites(1, TDR_ADDR) = {}

\* C4: after a write_uart(h, b) that found TX ready, the transmit-data
\* register holds exactly b, no other bit of the 32 set, for every byte b.
C4_TdrHoldsByte ==
    \A t \in Threads :
        (pc[t] = "idle" /\ op[t].name = "write" /\ diag[t] = "Writing")
        => mem[TDR_ADDR] = <<0, op[t].arg>>

\* C5: a read_uart call on an initialized handle whose status register
\* showed RX ready when the call read it returns the value v the
\* receive-data register held (the returned int has the 32-bit pattern of
\* v), having read the status register once, then the receive-data
\* register once, and nothing after.
C5_ReadReturnsRdr ==
    \A t \in Threads :
        (pc[t] = "idle" /\ op[t].name = "read" /\ Len(trace[t]) >= 1
            /\ BitSet(trace[t][1].v, RX_READY_BIT))
        => /\ diag[t] = "none"
           /\ Len(trace[t]) = 2
           /\ trace[t][1].k = "R" /\ trace[t][1].a = STA_ADDR
           /\ trace[t][2].k = "R" /\ trace[t][2].a = RDR_ADDR
           /\ ret[t].has
           /\ IntToU32(ret[t].val) = trace[t][2].v

C5_Witness ==
    /\ pc[1] = "idle" /\ op[1].name = "read" /\ diag[1] = "none"
    /\ Len(trace[1]) = 2 /\ trace[1][2].v = <<0, 66>> /\ ret[1] = IntRet(66)

\* C6: the value a read_uart call returns from its success path differs
\* from -1, the value it returns on timeout, on an uninitialized handle
\* and on a null handle.
C6_NoSentinel ==
    \A t \in Threads :
        (pc[t] = "idle" /\ op[t].name = "read" /\ op[t].h = "H" /\ diag[t] = "none")
        => ret[t].val # -1

C8_BrrDecodes ==
    \A t \in Threads :
        (pc[t] = "idle" /\ op[t].name = "init" /\ op[t].h = "H")
        => /\ Field(mem[BRR_ADDR], 0, 3) = 6
           /\ Field(mem[BRR_ADDR], 4, 5) = 2
           /\ Field(mem[BRR_ADDR], 8, 8) = 0
           /\ Field(mem[BRR_ADDR], 12, 15) = 1

\* C9: a call of init_uart, write_uart or read_uart with a null handle
\* leaves at once by the null-handle branch (read_uart returning -1, the
\* other two nothing), with no register access and the handle and the
\* registers as they were.
C9_NullHandleRefused ==
    [][\A t \in Threads :
          (op[t].h = "NULL" /\ pc[t] # "idle" /\ pc'[t] # pc[t])
          => /\ pc'[t] = "idle"
             /\ diag'[t] = "NullHandle"
             /\ ret'[t] = IF op[t].name = "read" THEN IntRet(-1) ELSE VOID
             /\ trace'[t] = <<>>
             /\ h' = h
             /\ mem' = mem]_vars

\* null-handle calls of all three operations in a row, the last an init
\* on an initialized handle
C9_Witness ==
    /\ pc[1] = "idle" /\ op[1].h = "NULL" /\ op[1].name = "init"
    /\ diag[1] = "NullHandle" /\ trace[1] = <<>> /\ h.isInitialized
    /\ prev[1].kind = "NullHandle" /\ prev[1].name \in {"write", "read"}

\* C10: every operation returns a value to its caller, and the value
\* alone tells the exit: two calls of the same operation that return the
\* same value left by the same exit (success, NullHandle, NotInitialized
\* or Timeout).
C10_ExplicitOutcome ==
    \A t \in Threads :
        (pc[t] = "idle" /\ op[t].name # "none")
        => /\ ret[t].has
           /\ (prev[t].name = op[t].name /\ prev[t].ret = ret[t])
                => prev[t].kind = Kind(t)

\* ------------------------------------------- two callers, one handle
\* Two threads use the handle main has set up, with nothing serializing
\* them: caller 1 initializes and writes, caller 2 writes and reads.
InitConc ==
    /\ Init
    /\ charSigned = FALSE
    /\ h.baseAddress = <<0, 0>>
    /\ mem[CNR_ADDR] = <<0, 0>>
    /\ mem[RDR_ADDR] = <<0, 66>>

ConcInit == Enter(1, "init", "H", 0, TRUE)
ConcWrite(t) == Enter(t, "write", "H", 64 + t, FALSE)
ConcRead(t) == Enter(t, "read", "H", 0, FALSE)

NextConc ==
    \/ ConcInit
    \/ \E t \in Threads : ConcWrite(t)
    \/ ConcRead(2)
    \/ \E t \in Threads : CallSteps(t)
    \/ DevTxReady
    \/ DevRxByte

SpecConc == InitConc /\ [][NextConc]_vars

\* a step of caller t inside a write_uart or read_uart call
InWriteOrRead(t) ==
    op[t].name \in {"write", "read"} /\ pc[t] # "idle"
        /\ (pc'[t] # pc[t] \/ timer'[t] # timer[t])

\* C11: isInitialized goes from false to true only by the last step of an
\* init_uart call on a valid handle, and once true no step of any call
\* (timed out, null handle or other) makes it false again.
C11_InitializedMonotonic ==
    [][/\ h.isInitialized => h'.isInitialized
       /\ (~h.isInitialized /\ h'.isInitialized)
            => \E t \in Threads :
                 pc[t] = "init_flag" /\ pc'[t] = "idle"
                     /\ op[t].name = "init" /\ op[t].h = "H"]_vars

\* initialized, and since then a null-handle call and a timed-out call
C11_Witness ==
    /\ h.isInitialized /\ pc[1] = "idle"
    /\ diag[1] = "Timeout" /\ prev[1].kind = "NullHandle"

\* C12: a write_uart or read_uart call that ends in a timeout has read the
\* status register once and accessed nothing else (transmit-data not
\* written, receive-data not read), and none of its steps changed the
\* handle or any register: the state the next call starts from is the one
\* it would have started from without the call.
C12_TimeoutLeavesNoTrace ==
    /\ [](\A t \in Threads :
            (pc[t] = "idle" /\ diag[t] = "Timeout")
            => /\ Len(trace[t]) = 1
               /\ trace[t][1].k = "R" /\ trace[t][1].a = STA_ADDR)
    /\ [][\A t \in Threads :
            (InWriteOrRead(t) /\ pc[t] \notin {"write_tdr", "read_rdr"})
            => (h' = h /\ mem' = mem)]_vars

\* a read that timed out with a byte waiting in RDR: RX ready is still up
C12_Witness ==
    /\ pc[1] = "idle" /\ op[1].name = "read" /\ diag[1] = "Timeout"
    /\ BitSet(mem[STA_ADDR], RX_READY_BIT) /\ h.isInitialized

\* a measure of what is left of a call
Rank(t) ==
    CASE pc[t] = "idle" -> 0
      [] pc[t] \in {"write_tdr", "read_rdr", "init_flag"} -> 1
      [] pc[t] \in {"write_loop", "read_loop"} -> 2 + (TIMEOUT_LIMIT + 1 - timer[t])
      [] pc[t] \in {"write_sta", "read_sta", "init_brr"} -> 4 + TIMEOUT_LIMIT
      [] pc[t] \in {"write_chk", "read_chk", "init_cnr"} -> 5 + TIMEOUT_LIMIT
      [] OTHER -> 6 + TIMEOUT_LIMIT

\* C13: every write_uart and read_uart call returns, whatever the device
\* does: a call in progress can always take its next step, every step
\* brings it nearer to its return (the measure Rank decreases), and the
\* loop makes at most TIMEOUT_LIMIT + 1 passes.
C13_CallsTerminate ==
    /\ [](\A t \in Threads :
            /\ timer[t] <= TIMEOUT_LIMIT + 1
            /\ pc[t] # "idle" => ENABLED CallSteps(t))
    /\ [][\A t \in Threads : InWriteOrRead(t) => Rank(t)' < Rank(t)]_vars

\* a read that made all its passes while the device raised RX ready
C13_Witness ==
    /\ pc[1] = "idle" /\ op[1].name = "read" /\ diag[1] = "Timeout"
    /\ timer[1] = TIMEOUT_LIMIT + 1 /\ seen[1]

\* C14: once an init_uart has succeeded, no later step (of a repeated
\* init_uart, of a write_uart or of a read_uart) changes the control
\* register, the baud/format register or any field of the handle.
C14_InitIdempotent ==
    [][h.isInitialized
         => /\ h' = h
            /\ mem'[CNR_ADDR] = mem[CNR_ADDR]
            /\ mem'[BRR_ADDR] = mem[BRR_ADDR]]_vars

\* a successful write, then a repeated init_uart that has returned
C14_Witness ==
    /\ pc[1] = "idle" /\ op[1].name = "init" /\ op[1].h = "H"
    /\ prev[1].name = "write" /\ prev[1].kind = "Ok" /\ h.isInitialized

\* C16: after init_uart(h, useMock = true) no register reference of the
\* handle is an address of the real device.
C16_MockHonoured ==
    \A t \in Threads :
        (pc[t] = "idle" /\ op[t].name = "init" /\ op[t].h = "H" /\ op[t].mock)
        => {h.cnr, h.brr, h.sta, h.tdr, h.rdr} \cap RegAddrs = {}

\* C17: once initialized, the handle's register references are
\* baseAddress + 0x0, 0x4, 0x8, 0xC and 0x10 with baseAddress 0xFC000000,
\* pairwise distinct, and no step of a write_uart or read_uart call
\* changes baseAddress or a reference.
C17_RegisterReferences ==
    /\ [](h.isInitialized
            => /\ h.baseAddress = <<64512, 0>>
               /\ h.cnr = AddrAdd(h.baseAddress, 0)
               /\ h.brr = AddrAdd(h.baseAddress, 4)
               /\ h.sta = AddrAdd(h.baseAddress, 8)
               /\ h.tdr = AddrAdd(h.baseAddress, 12)
               /\ h.rdr = AddrAdd(h.baseAddress, 16)
               /\ Cardinality({h.cnr, h.brr, h.sta, h.tdr, h.rdr}) = 5)
    /\ [][\A t \in Threads : InWriteOrRead(t) => h' = h]_vars

\* initialized from garbage, and a write has since gone through
C17_Witness ==
    /\ h.isInitialized /\ pc[1] = "idle" /\ op[1].name = "write"
    /\ diag[1] = "Writing" /\ h.tdr = <<64512, 12>>

\* C18: with one caller and a device that only raises the ready bits, no
\* call writes transmit-data while TX ready is down or reads receive-data
\* while RX ready is down; a write_uart that finds TX ready down (the byte
\* before still pending) writes nothing.
C18_ReadyProtocolKept ==
    \A i \in 1..Len(trace[Caller]) : trace[Caller][i].rdy

\* a second write while the first byte is pending: it times out and TDR
\* still holds the first byte
C18_Witness ==
    /\ pc[1] = "idle" /\ op[1].name = "write" /\ op[1].arg = 0
    /\ diag[1] = "Timeout" /\ prev[1].name = "write" /\ prev[1].kind = "Ok"
    /\ mem[TDR_ADDR] = <<0, 65>>

\* C19: in every state, the intermediate states of init_uart included,
\* isInitialized true implies that the register references are set and
\* that the control register holds 0x3 and the baud/format register
\* 0x866.
C19_FlagAfterConfiguration ==
    h.isInitialized
    => /\ h.cnr = CNR_ADDR /\ h.brr = BRR_ADDR /\ h.sta = STA_ADDR
       /\ h.tdr = TDR_ADDR /\ h.rdr = RDR_ADDR
       /\ mem[CNR_ADDR] = <<0, 3>>
       /\ mem[BRR_ADDR] = <<0, 2150>>

\* inside the first init_uart, both registers written, the flag not yet set
C19_Witness ==
    /\ pc[1] = "init_flag" /\ ~h.isInitialized
    /\ Len(trace[1]) = 2 /\ mem[BRR_ADDR] = <<0, 2150>>

\* C20: no step of a write_uart or read_uart call changes the control
\* register, the baud/format register or the handle; no call stores to
\* the status or the receive-data register; write_uart never reads
\* receive-data and read_uart never writes transmit-data.
C20_WriteReadFrame ==
    /\ [](\A t \in Threads :
            /\ RegWrites(t, STA_ADDR) = {} /\ RegWrites(t, RDR_ADDR) = {}
            /\ op[t].name = "write" => RegReads(t, RDR_ADDR) = {}
            /\ op[t].name = "read" => RegWrites(t, TDR_ADDR) = {})
    /\ [][\A t \in Threads :
            InWriteOrRead(t)
            => /\ h' = h
               /\ mem'[CNR_ADDR] = mem[CNR_ADDR]
               /\ mem'[BRR_ADDR] = mem[BRR_ADDR]]_vars

\* a successful read after a successful write
C20_Witness ==
    /\ pc[1] = "idle" /\ op[1].name = "read" /\ diag[1] = "none"
    /\ Len(trace[1]) = 2 /\ prev[1].name = "write" /\ prev[1].kind = "Ok"

====
